---- MODULE Spec2Model ----
(***************************************************************************)
(* Asynchronous estimate-job lifecycle of the travel budget estimator      *)
(* backend: the job store and event log (backend/app/repo.py, db.py,       *)
(* models.py) and the request handlers and background runner               *)
(* (backend/app/main.py).                                                  *)
(*                                                                         *)
(* Every database transaction is a `with get_session()` block.  A writing  *)
(* transaction is modelled in two steps: the step that stages its rows     *)
(* (taking the row lock of SELECT ... FOR UPDATE and drawing the event's   *)
(* autoincrement id), and the step that ends it, session.commit() or       *)
(* session.rollback().  Rows are visible to other sessions only once       *)
(* committed.                                                              *)
(***************************************************************************)
EXTENDS Integers, Sequences, FiniteSets, TLC

\* ---------------------------------------------------------------- bounds
\* number of cancel requests the clients send
MaxCancels == 2
\* size of the event log: ids the sequence of estimate_job_events.id hands out
MaxEventId == 5
\* number of transactions the storage layer fails
MaxFailures == 1

\* job ids handed out by uuid4(); each is used by one submission
JobOrder == <<"j1", "j2">>
JobIds == { JobOrder[i] : i \in 1..Len(JobOrder) }
\* request payloads the clients submit
Requests ==
  { [origin |-> "KUL", destination |-> "NRT", travelers |-> 2] }
\* what run_budget_estimate returns, and what it raises
Results == { "totals" }
EstimatorErrors == { "RuntimeError: estimate failed" }
StorageErrors == { "OperationalError: storage" }

\* Optional[...] values: None, or a value
None == << >>
Some(v) == << v >>
Get(o) == o[1]

\* clients of the event stream endpoint, in the order they connect
SubOrder == <<"s1", "s2">>
Subscribers == { SubOrder[i] : i \in 1..Len(SubOrder) }
\* a subscriber that has made no request yet
NoStream ==
  [ pc |-> "idle", job_id |-> None, header |-> None, last_id |-> None,
    connected |-> FALSE, emitted |-> << >> ]

Runners == { <<"runner", j>> : j \in JobIds }
Cancels == { <<"cancel", c>> : c \in 1..MaxCancels }
Procs == Runners \cup Cancels

VARIABLES
  jobs,      \* table estimate_jobs: job_id -> committed row
  events,    \* table estimate_job_events: the committed rows
  next_id,   \* the autoincrement sequence of estimate_job_events.id
  lock,      \* job_id -> the session holding the row's FOR UPDATE lock
  clock,     \* the wall clock, counted in readings: what utcnow() returns next
  failures,  \* transactions failed so far
  spc,       \* create_estimate_job, per job id: where the handler is
  snapshot,  \* create_estimate_job, per job id: the dict create_job returned
  pc,        \* per runner and cancel handler: where it is
  txn,       \* per runner and cancel handler: the rows its open session staged
  outcome,   \* per runner: what the estimator returned or raised
  target,    \* per cancel handler: the job_id of the request
  reply,     \* per runner and cancel handler: what its last repo call returned
  sub        \* stream_estimate_job_events, per subscriber: its stream

vars ==
  << jobs, events, next_id, lock, clock, failures, spc, snapshot, pc, txn,
     outcome, target, reply, sub >>

\* ------------------------------------------------------------- repo.py
\* datetime.now(UTC): two readings are a database round trip apart, so each
\* is later than the one before it (Advance)
utcnow == clock
Advance == clock' = clock + 1

\* datetime.isoformat()
isoformat(t) == [iso |-> t]

job_to_dict(job) ==
  [ job_id |-> job.job_id,
    status |-> job.status,
    created_at |-> isoformat(job.created_at),
    started_at |->
      IF job.started_at # None THEN Some(isoformat(Get(job.started_at))) ELSE None,
    finished_at |->
      IF job.finished_at # None THEN Some(isoformat(Get(job.finished_at))) ELSE None,
    error |-> job.error,
    result |-> job.result ]

\* mutant: the id column is not drawn from the sequence
EstimateJobEvent_no_sequence(id, job_id, type, message, data) ==
  [ id |-> 1, job_id |-> job_id, created_at |-> utcnow, type |-> type,
    message |-> message, data |-> data ]

\* the EstimateJobEvent row built by _append_event_in_session; its id is
\* drawn from the sequence when the row is inserted
EstimateJobEvent(id, job_id, type, message, data) ==
  [ id |-> id, job_id |-> job_id, created_at |-> utcnow, type |-> type,
    message |-> message, data |-> data ]

\* mutant: the row is created as already started
EstimateJob_started(job_id, payload) ==
  [ job_id |-> job_id,
    request |-> payload,
    status |-> "running",
    created_at |-> utcnow,
    started_at |-> Some(utcnow),
    finished_at |-> None,
    error |-> None,
    result |-> None ]

\* the EstimateJob row built by create_job
EstimateJob(job_id, payload) ==
  [ job_id |-> job_id,
    request |-> payload,
    status |-> "queued",
    created_at |-> utcnow,
    started_at |-> None,
    finished_at |-> None,
    error |-> None,
    result |-> None ]

\* mutant: the guard refuses done and error whatever the job's status
Rejected_completion(job, status) == status \in {"done", "error"}

\* mutant: the guard against overwriting a cancelled job is missing
Rejected_never(job, status) == FALSE

\* update_job_status: the guard that leaves the row alone
Rejected(job, status) ==
  job.status = "cancelled" /\ status \in {"done", "error"}

\* mutant: a transition stamps created_at as well
Updated_recreated(job, status, error, result, set_started, set_finished) ==
  [ job EXCEPT
      !.status = status,
      !.created_at = utcnow,
      !.started_at =
        IF set_started /\ job.started_at = None THEN Some(utcnow) ELSE @,
      !.finished_at = IF set_finished THEN Some(utcnow) ELSE @,
      !.error = IF error # None THEN error ELSE @,
      !.result = IF result # None THEN result ELSE @ ]

\* mutant: error and result are assigned whatever was passed
Updated_clearing(job, status, error, result, set_started, set_finished) ==
  [ job EXCEPT
      !.status = status,
      !.started_at =
        IF set_started /\ job.started_at = None THEN Some(utcnow) ELSE @,
      !.finished_at = IF set_finished THEN Some(utcnow) ELSE @,
      !.error = error,
      !.result = result ]

\* mutant: set_started overwrites a started_at that is already set
Updated_restarted(job, status, error, result, set_started, set_finished) ==
  [ job EXCEPT
      !.status = status,
      !.started_at = IF set_started THEN Some(utcnow) ELSE @,
      !.finished_at = IF set_finished THEN Some(utcnow) ELSE @,
      !.error = IF error # None THEN error ELSE @,
      !.result = IF result # None THEN result ELSE @ ]

\* mutant: the result is not stored on the row
Updated_no_result(job, status, error, result, set_started, set_finished) ==
  [ job EXCEPT
      !.status = status,
      !.started_at =
        IF set_started /\ job.started_at = None THEN Some(utcnow) ELSE @,
      !.finished_at = IF set_finished THEN Some(utcnow) ELSE @,
      !.error = IF error # None THEN error ELSE @ ]

\* update_job_status: the row after the assignments
Updated(job, status, error, result, set_started, set_finished) ==
  [ job EXCEPT
      !.status = status,
      !.started_at =
        IF set_started /\ job.started_at = None THEN Some(utcnow) ELSE @,
      !.finished_at = IF set_finished THEN Some(utcnow) ELSE @,
      !.error = IF error # None THEN error ELSE @,
      !.result = IF result # None THEN result ELSE @ ]

\* update_job_status: the message of the status event
StatusMessage(status, error) ==
  IF error # None THEN <<"Error: ", Get(error)>>
  ELSE <<"Status changed to ", status>>

\* ---------------------------------------------------------------- db.py
\* the rows one session has staged: the job row it wrote (if any) and the
\* event row it added (if any)
Staged(job, event) == [ job |-> job, event |-> event ]

\* mutant: the job row is written through at flush, outside the transaction
get_session_autocommit(ok, t) ==
  [ jobs |->
      IF t.job # None
      THEN [ k \in DOMAIN jobs \cup {Get(t.job).job_id} |->
               IF k = Get(t.job).job_id THEN Get(t.job) ELSE jobs[k] ]
      ELSE jobs,
    events |->
      IF ok /\ t.event # None THEN events \cup {Get(t.event)} ELSE events ]

\* get_session: the tables after the session ends, by session.commit()
\* (ok) or by session.rollback() (not ok): all its rows, or none of them
get_session(ok, t) ==
  [ jobs |->
      IF ok /\ t.job # None
      THEN [ k \in DOMAIN jobs \cup {Get(t.job).job_id} |->
               IF k = Get(t.job).job_id THEN Get(t.job) ELSE jobs[k] ]
      ELSE jobs,
    events |->
      IF ok /\ t.event # None THEN events \cup {Get(t.event)} ELSE events ]

\* the row lock of SELECT ... FOR UPDATE is released when the session ends
Released(p) == [ k \in JobIds |-> IF lock[k] = Some(p) THEN None ELSE lock[k] ]

\* ------------------------------------------------- repo.py, the sessions
\* mutant: the select without with_for_update, no row lock is waited for
update_job_status_unlocked(p, job_id, status, error, result, set_started, set_finished, next_pc) ==
  IF job_id \notin DOMAIN jobs
  THEN /\ reply' = [reply EXCEPT ![p] = None]
       /\ pc' = [pc EXCEPT ![p] = next_pc]
       /\ UNCHANGED <<txn, lock, next_id, clock>>
  ELSE /\ TRUE
       /\ IF Rejected(jobs[job_id], status)
          THEN /\ reply' = [reply EXCEPT ![p] = Some(job_to_dict(jobs[job_id]))]
               /\ pc' = [pc EXCEPT ![p] = next_pc]
               /\ UNCHANGED <<txn, lock, next_id, clock>>
          ELSE /\ next_id <= MaxEventId
               /\ txn' = [txn EXCEPT ![p] = Some(Staged(
                   Some(Updated(jobs[job_id], status, error, result,
                                set_started, set_finished)),
                   Some(EstimateJobEvent(next_id, job_id, "status",
                                         StatusMessage(status, error),
                                         [status |-> status]))))]
               /\ lock' = [lock EXCEPT ![job_id] = Some(p)]
               /\ next_id' = next_id + 1
               /\ Advance
               /\ UNCHANGED <<reply, pc>>

\* update_job_status up to the end of the with block: no such job returns
\* None; a rejected transition returns the row as it is; otherwise the row
\* is locked, the new row and its status event are staged
update_job_status(p, job_id, status, error, result, set_started, set_finished, next_pc) ==
  IF job_id \notin DOMAIN jobs
  THEN /\ reply' = [reply EXCEPT ![p] = None]
       /\ pc' = [pc EXCEPT ![p] = next_pc]
       /\ UNCHANGED <<txn, lock, next_id, clock>>
  ELSE /\ lock[job_id] = None
       /\ IF Rejected(jobs[job_id], status)
          THEN /\ reply' = [reply EXCEPT ![p] = Some(job_to_dict(jobs[job_id]))]
               /\ pc' = [pc EXCEPT ![p] = next_pc]
               /\ UNCHANGED <<txn, lock, next_id, clock>>
          ELSE /\ next_id <= MaxEventId
               /\ txn' = [txn EXCEPT ![p] = Some(Staged(
                   Some(Updated(jobs[job_id], status, error, result,
                                set_started, set_finished)),
                   Some(EstimateJobEvent(next_id, job_id, "status",
                                         StatusMessage(status, error),
                                         [status |-> status]))))]
               /\ lock' = [lock EXCEPT ![job_id] = Some(p)]
               /\ next_id' = next_id + 1
               /\ Advance
               /\ UNCHANGED <<reply, pc>>

\* append_event up to the end of the with block: the event row is staged
append_event(p, job_id, type, message, data) ==
  /\ next_id <= MaxEventId
  /\ txn' = [txn EXCEPT ![p] = Some(Staged(None,
               Some(EstimateJobEvent(next_id, job_id, type, message, data))))]
  /\ next_id' = next_id + 1
  /\ Advance
  /\ UNCHANGED <<reply, pc, lock>>

\* session.commit() of the open session of p: its rows become visible, the
\* call returns (update_job_status returns job_to_dict of the new row)
Commit(p, next_pc) ==
  /\ txn[p] # None
  /\ LET t == Get(txn[p])
         db == get_session(TRUE, t)
     IN /\ jobs' = db.jobs
        /\ events' = db.events
        /\ reply' = IF t.job # None
                    THEN [reply EXCEPT ![p] = Some(job_to_dict(Get(t.job)))]
                    ELSE reply
  /\ lock' = Released(p)
  /\ txn' = [txn EXCEPT ![p] = None]
  /\ pc' = [pc EXCEPT ![p] = next_pc]

\* the session of p fails: session.rollback(), and the exception is raised
\* into the caller
Rollback(p, except_pc) ==
  /\ txn[p] # None
  /\ failures < MaxFailures
  /\ failures' = failures + 1
  /\ LET db == get_session(FALSE, Get(txn[p]))
     IN /\ jobs' = db.jobs
        /\ events' = db.events
  /\ lock' = Released(p)
  /\ txn' = [txn EXCEPT ![p] = None]
  /\ pc' = [pc EXCEPT ![p] = except_pc]
  /\ UNCHANGED reply

\* get_events_since: the committed events of job_id, those with id > last_id
\* when last_id is given, ordered by id ascending
RECURSIVE order_by_id(_)
order_by_id(S) ==
  IF S = {} THEN << >>
  ELSE LET first == CHOOSE e \in S : \A o \in S : e.id <= o.id
       IN <<first>> \o order_by_id(S \ {first})

\* mutant: the cursor itself is included (>= for >)
get_events_since_inclusive(job_id, last_id) ==
  order_by_id({ e \in events :
                  /\ e.job_id = job_id
                  /\ (last_id # None => e.id >= Get(last_id)) })

get_events_since(job_id, last_id) ==
  order_by_id({ e \in events :
                  /\ e.job_id = job_id
                  /\ (last_id # None => e.id > Get(last_id)) })

get_job(job_id) ==
  IF job_id \in DOMAIN jobs THEN Some(job_to_dict(jobs[job_id])) ELSE None

\* ---------------------------------------------------------------- Init
\* the tables as Base.metadata.create_all leaves them, no request made yet
Init ==
  /\ jobs = << >>
  /\ events = {}
  /\ next_id = 1
  /\ lock = [ k \in JobIds |-> None ]
  /\ clock = 0
  /\ failures = 0
  /\ spc = [ k \in JobIds |-> "idle" ]
  /\ snapshot = [ k \in JobIds |-> None ]
  /\ pc = [ p \in Procs |-> IF p \in Runners THEN "unscheduled" ELSE "idle" ]
  /\ txn = [ p \in Procs |-> None ]
  /\ outcome = [ k \in JobIds |-> None ]
  /\ target = [ c \in 1..MaxCancels |-> None ]
  /\ reply = [ p \in Procs |-> None ]
  /\ sub = [ s \in Subscribers |-> NoStream ]

\* ------------------------------------- main.py, create_estimate_job
\* create_job in its session: the job row and its "Job queued" event are
\* committed together (ok), or the session is rolled back and the handler
\* fails (not ok)
create_job(job_id, payload, ok) ==
  /\ spc[job_id] = "idle"
  /\ \A i \in 1..Len(JobOrder) :
       JobOrder[i] = job_id /\ i > 1 => spc[JobOrder[i - 1]] # "idle"
  /\ next_id <= MaxEventId
  /\ IF ok THEN TRUE ELSE failures < MaxFailures
  /\ LET job == EstimateJob(job_id, payload)
         event == EstimateJobEvent(next_id, job_id, "status", <<"Job queued">>,
                                   [status |-> "queued"])
         db == get_session(ok, Staged(Some(job), Some(event)))
     IN /\ jobs' = db.jobs
        /\ events' = db.events
        /\ snapshot' =
             [snapshot EXCEPT ![job_id] = IF ok THEN Some(job_to_dict(job)) ELSE None]
  /\ next_id' = next_id + 1
  /\ Advance
  /\ failures' = IF ok THEN failures ELSE failures + 1
  /\ spc' = [spc EXCEPT ![job_id] = IF ok THEN "created" ELSE "failed"]
  /\ UNCHANGED << lock, pc, txn, outcome, target, reply,
                     sub >>

\* mutant: the handler awaits _run_job instead of scheduling it as a task
create_estimate_job_await(job_id) ==
  /\ spc[job_id] = "created"
  /\ IF pc[<<"runner", job_id>>] = "unscheduled"
     THEN /\ pc' = [pc EXCEPT ![<<"runner", job_id>>] = "start"]
          /\ UNCHANGED spc
     ELSE /\ pc[<<"runner", job_id>>] \in {"finished", "crashed"}
          /\ spc' = [spc EXCEPT ![job_id] = "responded"]
          /\ UNCHANGED pc
  /\ UNCHANGED << jobs, events, next_id, lock, clock, failures, snapshot, txn,
                  outcome, target, reply,
                     sub >>

\* asyncio.create_task(_run_job(...)) and the return of the response built
\* from the dict create_job returned
create_estimate_job_return(job_id) ==
  /\ spc[job_id] = "created"
  /\ spc' = [spc EXCEPT ![job_id] = "responded"]
  /\ pc' = [pc EXCEPT ![<<"runner", job_id>>] = "start"]
  /\ UNCHANGED << jobs, events, next_id, lock, clock, failures, snapshot, txn,
                  outcome, target, reply,
                     sub >>

\* ------------------------------------------------- main.py, _run_job
\* update_job_status(job_id, status="running", set_started=True)
run_job_start(job_id) ==
  LET p == <<"runner", job_id>>
  IN /\ pc[p] = "start" /\ txn[p] = None
     /\ update_job_status(p, job_id, "running", None, None, TRUE, FALSE, "estimate")
     /\ UNCHANGED << jobs, events, failures, spc, snapshot, outcome, target,
                     sub >>

\* run_budget_estimate returns a result
estimate_returns(job_id, result) ==
  LET p == <<"runner", job_id>>
  IN /\ pc[p] = "estimate"
     /\ pc' = [pc EXCEPT ![p] = "done"]
     /\ outcome' = [outcome EXCEPT ![job_id] = Some([ok |-> TRUE, value |-> result])]
     /\ UNCHANGED << jobs, events, next_id, lock, clock, failures, spc, snapshot,
                     txn, target, reply,
                     sub >>

\* run_budget_estimate raises
estimate_raises(job_id, e) ==
  LET p == <<"runner", job_id>>
  IN /\ pc[p] = "estimate"
     /\ pc' = [pc EXCEPT ![p] = "error"]
     /\ outcome' = [outcome EXCEPT ![job_id] = Some([ok |-> FALSE, value |-> e])]
     /\ UNCHANGED << jobs, events, next_id, lock, clock, failures, spc, snapshot,
                     txn, target, reply,
                     sub >>

\* update_job_status(job_id, status="done", result=result, set_finished=True)
run_job_done(job_id) ==
  LET p == <<"runner", job_id>>
  IN /\ pc[p] = "done" /\ txn[p] = None
     /\ update_job_status(p, job_id, "done", None, Some(Get(outcome[job_id]).value),
                          FALSE, TRUE, "append")
     /\ UNCHANGED << jobs, events, failures, spc, snapshot, outcome, target,
                     sub >>

\* append_event(job_id, "progress", "Job completed", {"status": "done"})
run_job_append(job_id) ==
  LET p == <<"runner", job_id>>
  IN /\ pc[p] = "append" /\ txn[p] = None
     /\ append_event(p, job_id, "progress", <<"Job completed">>, [status |-> "done"])
     /\ UNCHANGED << jobs, events, failures, spc, snapshot, outcome, target,
                     sub >>

\* mutant: the error transition without set_finished
run_job_error_unfinished(job_id) ==
  LET p == <<"runner", job_id>>
  IN /\ pc[p] = "error" /\ txn[p] = None
     /\ update_job_status(p, job_id, "error", Some(Get(outcome[job_id]).value), None,
                          FALSE, FALSE, "finished")
     /\ UNCHANGED << jobs, events, failures, spc, snapshot, outcome, target,
                     sub >>

\* except Exception as e: update_job_status(job_id, status="error",
\* error=f"{type(e).__name__}: {e}", set_finished=True)
run_job_error(job_id) ==
  LET p == <<"runner", job_id>>
  IN /\ pc[p] = "error" /\ txn[p] = None
     /\ update_job_status(p, job_id, "error", Some(Get(outcome[job_id]).value), None,
                          FALSE, TRUE, "finished")
     /\ UNCHANGED << jobs, events, failures, spc, snapshot, outcome, target,
                     sub >>

\* where _run_job goes on when the repo call at pc returns
AfterCall(at) ==
  CASE at = "start" -> "estimate"
    [] at = "done" -> "append"
    [] at = "append" -> "finished"
    [] at = "error" -> "finished"

\* where _run_job goes on when the repo call at pc raises: inside the try
\* block the except clause takes it, outside it the task ends
AfterRaise(at) ==
  CASE at = "start" -> "crashed"
    [] at = "done" -> "error"
    [] at = "append" -> "error"
    [] at = "error" -> "crashed"

\* the session of the runner's repo call commits
run_job_commit(job_id) ==
  LET p == <<"runner", job_id>>
  IN /\ Commit(p, AfterCall(pc[p]))
     /\ UNCHANGED << next_id, clock, failures, spc, snapshot, outcome, target,
                     sub >>

\* the session of the runner's repo call fails with a storage error e
run_job_raise(job_id, e) ==
  LET p == <<"runner", job_id>>
  IN /\ Rollback(p, AfterRaise(pc[p]))
     /\ outcome' = IF pc[p] \in {"done", "append"}
                   THEN [outcome EXCEPT ![job_id] = Some([ok |-> FALSE, value |-> e])]
                   ELSE outcome
     /\ UNCHANGED << next_id, clock, spc, snapshot, target,
                     sub >>

\* ------------------------------------- main.py, cancel_estimate_job
\* a client posts /api/estimate-jobs/{job_id}/cancel
cancel_request(c, job_id) ==
  LET p == <<"cancel", c>>
  IN /\ pc[p] = "idle"
     /\ IF c = 1 THEN TRUE ELSE pc[<<"cancel", c - 1>>] # "idle"
     /\ pc' = [pc EXCEPT ![p] = "cancel"]
     /\ target' = [target EXCEPT ![c] = Some(job_id)]
     /\ UNCHANGED << jobs, events, next_id, lock, clock, failures, spc, snapshot,
                     txn, outcome, reply,
                     sub >>

\* mutant: the handler goes on to append_event when cancel_job found no job
cancel_job_unchecked(c) ==
  LET p == <<"cancel", c>>
  IN /\ pc[p] = "cancel" /\ txn[p] = None
     /\ update_job_status(p, Get(target[c]), "cancelled", None, None, FALSE, TRUE,
                          "append")
     /\ UNCHANGED << jobs, events, failures, spc, snapshot, outcome, target,
                     sub >>

\* cancel_job(job_id): update_job_status(job_id, status="cancelled",
\* set_finished=True); no job: HTTPException 404
cancel_job(c) ==
  LET p == <<"cancel", c>>
  IN /\ pc[p] = "cancel" /\ txn[p] = None
     /\ update_job_status(p, Get(target[c]), "cancelled", None, None, FALSE, TRUE,
                          "not_found")
     /\ UNCHANGED << jobs, events, failures, spc, snapshot, outcome, target,
                     sub >>

\* append_event(job_id, "status", "Job cancelled", {"status": "cancelled"})
cancel_append(c) ==
  LET p == <<"cancel", c>>
  IN /\ pc[p] = "append" /\ txn[p] = None
     /\ append_event(p, Get(target[c]), "status", <<"Job cancelled">>,
                     [status |-> "cancelled"])
     /\ UNCHANGED << jobs, events, failures, spc, snapshot, outcome, target,
                     sub >>

\* the session of the handler's repo call commits; after the second one the
\* handler returns the dict cancel_job returned
cancel_commit(c) ==
  LET p == <<"cancel", c>>
  IN /\ Commit(p, IF pc[p] = "cancel" THEN "append" ELSE "responded")
     /\ UNCHANGED << next_id, clock, failures, spc, snapshot, outcome, target,
                     sub >>

\* the session of the handler's repo call fails: the request fails
cancel_raise(c) ==
  LET p == <<"cancel", c>>
  IN /\ Rollback(p, "failed")
     /\ UNCHANGED << next_id, clock, spc, snapshot, outcome, target,
                     sub >>

Next ==
  \/ \E j \in JobIds, r \in Requests, ok \in BOOLEAN : create_job(j, r, ok)
  \/ \E j \in JobIds : create_estimate_job_return(j)
  \/ \E j \in JobIds : run_job_start(j)
  \/ \E j \in JobIds, r \in Results : estimate_returns(j, r)
  \/ \E j \in JobIds, e \in EstimatorErrors : estimate_raises(j, e)
  \/ \E j \in JobIds : run_job_done(j)
  \/ \E j \in JobIds : run_job_append(j)
  \/ \E j \in JobIds : run_job_error(j)
  \/ \E j \in JobIds : run_job_commit(j)
  \/ \E j \in JobIds, e \in StorageErrors : run_job_raise(j, e)
  \/ \E c \in 1..MaxCancels, j \in JobIds : cancel_request(c, j)
  \/ \E c \in 1..MaxCancels : cancel_job(c)
  \/ \E c \in 1..MaxCancels : cancel_append(c)
  \/ \E c \in 1..MaxCancels : cancel_commit(c)
  \/ \E c \in 1..MaxCancels : cancel_raise(c)

Spec == Init /\ [][Next]_vars

\* the writers with a storage layer that does not fail, the event loop and
\* its thread pool running every scheduled call: a handler or runner that can
\* take its next step takes it; only the estimator may never return, and
\* clients send requests as they please
NextFair ==
  \/ \E j \in JobIds, r \in Requests : create_job(j, r, TRUE)
  \/ \E j \in JobIds : create_estimate_job_return(j)
  \/ \E j \in JobIds : run_job_start(j)
  \/ \E j \in JobIds, r \in Results : estimate_returns(j, r)
  \/ \E j \in JobIds, e \in EstimatorErrors : estimate_raises(j, e)
  \/ \E j \in JobIds : run_job_done(j)
  \/ \E j \in JobIds : run_job_append(j)
  \/ \E j \in JobIds : run_job_error(j)
  \/ \E j \in JobIds : run_job_commit(j)
  \/ \E j \in JobIds : cancel_request(1, j)
  \/ cancel_job(1)
  \/ cancel_append(1)
  \/ cancel_commit(1)

Fairness ==
  /\ \A j \in JobIds :
       /\ WF_vars(create_estimate_job_return(j))
       /\ WF_vars(run_job_start(j))
       /\ WF_vars(run_job_done(j))
       /\ WF_vars(run_job_append(j))
       /\ WF_vars(run_job_error(j))
       /\ WF_vars(run_job_commit(j))
  /\ WF_vars(cancel_job(1))
  /\ WF_vars(cancel_append(1))
  /\ WF_vars(cancel_commit(1))

SpecFair == Init /\ [][NextFair]_vars /\ Fairness

\* ------------------------------------------------- main.py, the readers
\* the Last-Event-ID headers a client sends: none, or a text
LastEventIdHeaders == { None, Some(""), Some("abc"), Some("0"), Some("2") }

\* int(text): the number a decimal text denotes, none for ValueError
int(text) ==
  CASE text = "0" -> Some(0)
    [] text = "2" -> Some(2)
    [] OTHER -> None

\* mutant: the header is not read
initial_last_id_ignored(header) == None

\* the cursor a stream starts from: int(header) if the header is present
\* and not empty, and none on ValueError
initial_last_id(header) ==
  IF header = None \/ Get(header) = "" THEN None ELSE int(Get(header))

\* GET /api/estimate-jobs/{job_id}: 404 when get_job finds nothing, the
\* job otherwise; the handler writes nothing
get_estimate_job(job_id) ==
  IF get_job(job_id) = None
  THEN [ status_code |-> 404, detail |-> "Job not found" ]
  ELSE [ status_code |-> 200, body |-> Get(get_job(job_id)) ]

\* the stream endpoint without its existence check
stream_estimate_job_events_unchecked(s, job_id, header) ==
  /\ sub[s].pc = "idle"
  /\ \A i \in 1..Len(SubOrder) :
       SubOrder[i] = s => \A k \in 1..(i - 1) : sub[SubOrder[k]].pc # "idle"
  /\ sub' = [ sub EXCEPT ![s] =
       [ pc |-> "open", job_id |-> Some(job_id), header |-> header,
         last_id |-> initial_last_id(header), connected |-> TRUE,
         emitted |-> << >> ] ]
  /\ UNCHANGED << jobs, events, next_id, lock, clock, failures, spc, snapshot,
                  pc, txn, outcome, target, reply >>

\* GET /api/estimate-jobs/{job_id}/events: 404 and no stream when get_job
\* finds nothing; otherwise a stream whose cursor comes from the header
stream_estimate_job_events(s, job_id, header) ==
  /\ sub[s].pc = "idle"
  /\ \A i \in 1..Len(SubOrder) :
       SubOrder[i] = s => \A k \in 1..(i - 1) : sub[SubOrder[k]].pc # "idle"
  /\ sub' = [ sub EXCEPT ![s] =
       IF get_job(job_id) = None
       THEN [ @ EXCEPT !.pc = "not_found", !.job_id = Some(job_id) ]
       ELSE [ pc |-> "open", job_id |-> Some(job_id), header |-> header,
              last_id |-> initial_last_id(header), connected |-> TRUE,
              emitted |-> << >> ] ]
  /\ UNCHANGED << jobs, events, next_id, lock, clock, failures, spc, snapshot,
                  pc, txn, outcome, target, reply >>

\* the client of stream s goes away
client_disconnects(s) ==
  /\ sub[s].pc = "open"
  /\ sub[s].connected
  /\ sub' = [ sub EXCEPT ![s].connected = FALSE ]
  /\ UNCHANGED << jobs, events, next_id, lock, clock, failures, spc, snapshot,
                  pc, txn, outcome, target, reply >>

\* a cycle of event_generator that fetches and yields without asking
\* whether the client is still there
event_generator_poll_unchecked(s) ==
  /\ sub[s].pc = "open"
  /\ LET batch == get_events_since(Get(sub[s].job_id), sub[s].last_id)
     IN sub' = [ sub EXCEPT
          ![s].emitted = @ \o [ i \in 1..Len(batch) |-> batch[i].id ],
          ![s].last_id = IF batch = << >> THEN @ ELSE Some(batch[Len(batch)].id) ]
  /\ UNCHANGED << jobs, events, next_id, lock, clock, failures, spc, snapshot,
                  pc, txn, outcome, target, reply >>

\* one cycle of event_generator with the client connected: fetch the events
\* after the cursor, yield each in turn moving the cursor to its id, sleep
event_generator_poll(s) ==
  /\ sub[s].pc = "open"
  /\ sub[s].connected
  /\ LET batch == get_events_since(Get(sub[s].job_id), sub[s].last_id)
     IN sub' = [ sub EXCEPT
          ![s].emitted = @ \o [ i \in 1..Len(batch) |-> batch[i].id ],
          ![s].last_id = IF batch = << >> THEN @ ELSE Some(batch[Len(batch)].id) ]
  /\ UNCHANGED << jobs, events, next_id, lock, clock, failures, spc, snapshot,
                  pc, txn, outcome, target, reply >>

\* one cycle of event_generator with the client gone: break
event_generator_break(s) ==
  /\ sub[s].pc = "open"
  /\ ~sub[s].connected
  /\ sub' = [ sub EXCEPT ![s].pc = "closed" ]
  /\ UNCHANGED << jobs, events, next_id, lock, clock, failures, spc, snapshot,
                  pc, txn, outcome, target, reply >>

\* one cycle of event_generator in which get_events_since raises: nothing
\* in the generator catches it, the response ends
event_generator_raise(s) ==
  /\ sub[s].pc = "open"
  /\ sub[s].connected
  /\ failures < MaxFailures
  /\ failures' = failures + 1
  /\ sub' = [ sub EXCEPT ![s].pc = "failed" ]
  /\ UNCHANGED << jobs, events, next_id, lock, clock, spc, snapshot,
                  pc, txn, outcome, target, reply >>

NextStream ==
  \/ \E r \in Requests : create_job(JobOrder[1], r, TRUE)
  \/ \E j \in JobIds : create_estimate_job_return(j)
  \/ \E j \in JobIds : run_job_start(j)
  \/ \E j \in JobIds, r \in Results : estimate_returns(j, r)
  \/ \E j \in JobIds, e \in EstimatorErrors : estimate_raises(j, e)
  \/ \E j \in JobIds : run_job_done(j)
  \/ \E j \in JobIds : run_job_append(j)
  \/ \E j \in JobIds : run_job_error(j)
  \/ \E j \in JobIds : run_job_commit(j)
  \/ \E j \in JobIds : cancel_request(1, j)
  \/ cancel_job(1)
  \/ cancel_append(1)
  \/ cancel_commit(1)
  \/ \E s \in Subscribers, j \in JobIds, h \in LastEventIdHeaders :
       stream_estimate_job_events(s, j, h)
  \/ \E s \in Subscribers : client_disconnects(s)
  \/ \E s \in Subscribers : event_generator_poll(s)
  \/ \E s \in Subscribers : event_generator_break(s)
  \/ \E s \in Subscribers : event_generator_raise(s)

SpecStream == Init /\ [][NextStream]_vars

\* ------------------------------------------------------------ vocabulary
Runner(j) == <<"runner", j>>
Terminal == {"done", "error", "cancelled"}

EventsOf(j) == { e \in events : e.job_id = j }
StatusEvents(j) == { e \in EventsOf(j) : e.type = "status" }

\* the status events update_job_status wrote for job j, one per applied
\* transition; their ids are drawn under the row lock, so they are in the
\* order of the transitions
TransitionEvents(j) ==
  { e \in StatusEvents(j) : e.message[1] \in {"Status changed to ", "Error: "} }

\* the status job j had when the transition recorded by event e was applied
StatusBefore(j, e) ==
  LET before == { o \in TransitionEvents(j) : o.id < e.id }
  IN IF before = {} THEN "queued"
     ELSE (CHOOSE o \in before : \A x \in before : x.id <= o.id).data.status

\* a cancel transition was applied to job j while its status was s
CancelledWhile(j, s) ==
  \E e \in TransitionEvents(j) :
    e.data.status = "cancelled" /\ StatusBefore(j, e) = s

\* this step is the runner's done or error attempt for job j: the call of
\* update_job_status(status="done" | "error") up to its reject-or-stage
CompletionAttempt(j) ==
  /\ pc[Runner(j)] \in {"done", "error"}
  /\ txn[Runner(j)] = None
  /\ pc'[Runner(j)] # pc[Runner(j)] \/ txn'[Runner(j)] # None

\* ---------------------------------------------------------------- claims

\* C1: once a job's status is done, error or cancelled, no later step changes
\* its status, result or error.
C1_TerminalIsFinal ==
  [][ \A j \in DOMAIN jobs :
        jobs[j].status \in Terminal =>
          /\ jobs'[j].status = jobs[j].status
          /\ jobs'[j].result = jobs[j].result
          /\ jobs'[j].error = jobs[j].error ]_vars

\* C2: when a cancel transition of the job has committed before the runner's
\* done/error attempt, the job is cancelled at the attempt and the attempt
\* returns the current job and changes nothing.
C2_CancelBeatsCompletion ==
  [][ \A j \in DOMAIN jobs :
        ( /\ \E e \in TransitionEvents(j) : e.data.status = "cancelled"
          /\ CompletionAttempt(j) ) =>
          /\ jobs[j].status = "cancelled"
          /\ txn'[Runner(j)] = None
          /\ reply'[Runner(j)] = Some(job_to_dict(jobs[j]))
          /\ jobs' = jobs ]_vars

\* C3: a job cancelled while running stays cancelled with no result, also
\* after the runner's success has arrived.
C3_CancelledRunningStaysCancelled ==
  \A j \in DOMAIN jobs :
    CancelledWhile(j, "running") =>
      jobs[j].status = "cancelled" /\ jobs[j].result = None

\* C3 witness: a job was cancelled while running, the estimator returned a
\* result, and the runner's done attempt has returned the cancelled job.
C3_Witness ==
  \E j \in DOMAIN jobs :
    /\ CancelledWhile(j, "running")
    /\ pc[Runner(j)] = "finished"
    /\ outcome[j] # None /\ Get(outcome[j]).ok
    /\ reply[Runner(j)] = Some(job_to_dict(jobs[j]))
    /\ jobs[j].status = "cancelled"

\* C4: a transition into running is applied only to a queued job.
C4_RunningOnlyFromQueued ==
  [][ \A j \in DOMAIN jobs :
        (jobs'[j] # jobs[j] /\ jobs'[j].status = "running") =>
          jobs[j].status = "queued" ]_vars

\* C5: a job cancelled while queued stays cancelled, and the estimator is
\* not invoked for it.
C5_CancelledQueuedNeverRuns ==
  \A j \in DOMAIN jobs :
    CancelledWhile(j, "queued") =>
      /\ jobs[j].status = "cancelled"
      /\ pc[Runner(j)] # "estimate"
      /\ outcome[j] = None

\* C6: a step adds exactly one status event to a job's log when it changes
\* the job's row (an applied transition), and none otherwise.
C6_OneStatusEventPerTransition ==
  [][ \A j \in DOMAIN jobs :
        Cardinality(StatusEvents(j)') - Cardinality(StatusEvents(j)) =
          IF jobs'[j] # jobs[j] THEN 1 ELSE 0 ]_vars

\* C7: a job row exists if and only if its "Job queued" status event exists.
C7_CreateJobAtomic ==
  \A j \in JobIds :
    j \in DOMAIN jobs <=>
      \E e \in events :
        e.job_id = j /\ e.type = "status" /\ e.message = <<"Job queued">>

\* C7 witness: one creation failed in storage and left nothing, another one
\* committed.
C7_Witness ==
  \E j, k \in JobIds :
    /\ spc[j] = "failed" /\ j \notin DOMAIN jobs /\ EventsOf(j) = {}
    /\ k \in DOMAIN jobs

\* C8: the step that creates a job leaves it queued, with started_at,
\* finished_at, error and result null, and with exactly one event, the
\* status event "Job queued".
C8_CreatedQueuedWithOneEvent ==
  [][ \A j \in JobIds :
        (j \notin DOMAIN jobs /\ j \in DOMAIN jobs') =>
          /\ jobs'[j].status = "queued"
          /\ jobs'[j].started_at = None
          /\ jobs'[j].finished_at = None
          /\ jobs'[j].error = None
          /\ jobs'[j].result = None
          /\ Cardinality(EventsOf(j)') = 1
          /\ \A e \in EventsOf(j)' :
               /\ e.type = "status"
               /\ e.message = <<"Job queued">>
               /\ e.data = [status |-> "queued"] ]_vars

\* C8 witness: a job has just been created; neither its runner nor a cancel
\* has touched it.
C8_Witness ==
  \E j \in DOMAIN jobs :
    /\ spc[j] = "created"
    /\ jobs[j].status = "queued"
    /\ Cardinality(EventsOf(j)) = 1

\* C9: the submission returns the dict create_job returned, status queued,
\* whatever the runner and the cancel handlers have done since; it returns
\* in the step that schedules the runner, before the runner's first step,
\* and it can always take that step.
C9_SubmissionReturnsQueued ==
  /\ [](\A j \in JobIds :
          spc[j] = "responded" => Get(snapshot[j]).status = "queued")
  /\ [](\A j \in JobIds :
          spc[j] = "created" => ENABLED create_estimate_job_return(j))
  /\ [][ \A j \in JobIds :
           (spc[j] = "created" /\ spc'[j] # "created") =>
             /\ spc'[j] = "responded"
             /\ pc[Runner(j)] = "unscheduled"
             /\ pc'[Runner(j)] = "start" ]_vars

\* C9 witness: the response is out, the runner has not taken a step.
C9_Witness ==
  \E j \in JobIds :
    /\ spc[j] = "responded"
    /\ pc[Runner(j)] = "start" /\ txn[Runner(j)] = None
    /\ Get(snapshot[j]).status = "queued"

\* the cursors a reader can pass: none, or an event id
Cursors == {None} \cup { Some(n) : n \in 0..MaxEventId }

\* C10: get_events_since(job_id, c) lists exactly the events of job_id with
\* id > c (all of them when c is none), each once, in ascending id order.
C10_EventsSinceExact ==
  \A j \in JobIds, c \in Cursors :
    LET got == get_events_since(j, c)
        want == { e \in events :
                    e.job_id = j /\ (IF c = None THEN TRUE ELSE e.id > Get(c)) }
    IN /\ { got[i] : i \in 1..Len(got) } = want
       /\ Len(got) = Cardinality(want)
       /\ \A i \in 1..(Len(got) - 1) : got[i].id < got[i + 1].id

\* C10 witness: a cursor that cuts the log of one job, with events of
\* another job after it.
C10_Witness ==
  \E j, k \in JobIds, n \in 1..MaxEventId :
    /\ j # k
    /\ \E e \in EventsOf(j) : e.id <= n
    /\ \E e \in EventsOf(k) : e.id > n
    /\ Len(get_events_since(j, Some(n))) >= 2
    /\ Len(get_events_since(j, None)) > Len(get_events_since(j, Some(n)))

\* a is an initial part of b
IsPrefix(a, b) ==
  Len(a) <= Len(b) /\ \A i \in 1..Len(a) : a[i] = b[i]

\* C11: for every job and cursor, the result of get_events_since before a
\* step is a prefix of its result after the step (so of every later result),
\* and the two are equal when the step appends no event.
C11_EventsSinceGrowsByPrefix ==
  [][ \A j \in JobIds, c \in Cursors :
        /\ IsPrefix(get_events_since(j, c), get_events_since(j, c)')
        /\ events' = events =>
             get_events_since(j, c)' = get_events_since(j, c) ]_vars

\* this step is cancel handler c's cancel_job call returning for job j
CancelReturns(c, j) ==
  /\ target[c] = Some(j)
  /\ pc[<<"cancel", c>>] = "cancel"
  /\ pc'[<<"cancel", c>>] # "cancel"

\* C17: a cancel request for a job that is already done, error or cancelled
\* leaves its row (status, finished_at, result, error) as it was.
C17_CancelOfTerminalIsNoOp ==
  [][ \A j \in DOMAIN jobs, c \in 1..MaxCancels :
        (jobs[j].status \in Terminal /\ CancelReturns(c, j)) =>
          /\ jobs'[j].status = jobs[j].status
          /\ jobs'[j].finished_at = jobs[j].finished_at
          /\ jobs'[j].result = jobs[j].result
          /\ jobs'[j].error = jobs[j].error ]_vars

\* C18: a cancelled job has no result.
C18_CancelledHasNoResult ==
  \A j \in DOMAIN jobs :
    jobs[j].status = "cancelled" => jobs[j].result = None

\* C19: a job's status is error only when the estimator raised: the error
\* stored on a job is never the storage layer's.
C19_StorageFailureIsNotJobError ==
  \A j \in DOMAIN jobs :
    /\ jobs[j].status = "error" => jobs[j].error # None
    /\ jobs[j].error # None => Get(jobs[j].error) \in EstimatorErrors

\* the status events of the done transition, and the completion progress
\* events, of job j
DoneEvents(j) ==
  { e \in TransitionEvents(j) : e.data.status = "done" }
CompletionEvents(j) ==
  { e \in EventsOf(j) : e.type = "progress" /\ e.message = <<"Job completed">> }

\* C20: the runner's done attempt on a job that is not cancelled is staged,
\* and its commit leaves the job done, finished_at set, result the payload
\* the estimator returned; once the runner has finished, exactly one
\* completion progress event follows the done status event.
C20_SuccessIsRecorded ==
  /\ [][ \A j \in DOMAIN jobs :
           /\ ( /\ CompletionAttempt(j)
                /\ pc[Runner(j)] = "done"
                /\ jobs[j].status # "cancelled" ) =>
                  /\ txn'[Runner(j)] # None
                  /\ Get(Get(txn'[Runner(j)]).job).status = "done"
           /\ ( /\ pc[Runner(j)] = "done"
                /\ pc'[Runner(j)] = "append"
                /\ txn[Runner(j)] # None ) =>
                  /\ jobs'[j].status = "done"
                  /\ jobs'[j].finished_at # None
                  /\ jobs'[j].result = Some(Get(outcome[j]).value)
                  /\ Cardinality(DoneEvents(j)') = 1
                  /\ CompletionEvents(j)' = {} ]_vars
  /\ [](\A j \in DOMAIN jobs :
          /\ Cardinality(CompletionEvents(j)) <= 1
          /\ ( /\ pc[Runner(j)] = "finished"
               /\ outcome[j] # None /\ Get(outcome[j]).ok
               /\ DoneEvents(j) # {} ) =>
                 /\ Cardinality(CompletionEvents(j)) = 1
                 /\ \A d \in DoneEvents(j), e \in CompletionEvents(j) :
                      d.id < e.id)

\* C20 witness: the estimator returned, the job is done with its result, the
\* runner has appended the completion event and finished.
C20_Witness ==
  \E j \in DOMAIN jobs :
    /\ pc[Runner(j)] = "finished"
    /\ jobs[j].status = "done"
    /\ jobs[j].result = Some(Get(outcome[j]).value)
    /\ jobs[j].finished_at # None
    /\ Cardinality(CompletionEvents(j)) = 1
    /\ DoneEvents(j) # {}

\* ---------------------------------------------------------- the stream
\* the ids of a sequence of ids, and whether id n lies after cursor c
Range(f) == { f[i] : i \in 1..Len(f) }
After(c, n) == c = None \/ n > Get(c)

\* C12: a stream opened on job j with cursor c has emitted exactly the
\* committed events of j with id after c and up to its local cursor, each
\* once and in ascending id order, and its local cursor is the id of the last
\* event it emitted (c before the first).
C12_StreamDeliversInOrder ==
  \A s \in Subscribers :
    sub[s].pc = "open" =>
      LET out == sub[s].emitted
          c == initial_last_id(sub[s].header)
      IN /\ \A i \in 1..(Len(out) - 1) : out[i] < out[i + 1]
         /\ sub[s].last_id = IF out = << >> THEN c ELSE Some(out[Len(out)])
         /\ Range(out) = { e.id : e \in { x \in EventsOf(Get(sub[s].job_id)) :
                               After(c, x.id) /\ ~After(sub[s].last_id, x.id) } }
\* C13: for a job id the store does not hold, the get endpoint answers 404,
\* the cancel handler ends in not_found and the stream endpoint ends in
\* not_found with no stream; none of them changes the jobs, the events, the
\* id sequence or a session, and a refused stream request never emits.
C13_UnknownJobNotFound ==
  /\ [](\A j \in JobIds \ DOMAIN jobs : get_estimate_job(j).status_code = 404)
  /\ [](\A s \in Subscribers :
          sub[s].pc = "not_found" => sub[s].emitted = << >> /\ ~sub[s].connected)
  /\ [][ \A j \in JobIds \ DOMAIN jobs :
          /\ \A c \in 1..MaxCancels :
               (/\ target[c] = Some(j)
                /\ pc[<<"cancel", c>>] = "cancel"
                /\ pc'[<<"cancel", c>>] # "cancel")
               => /\ pc'[<<"cancel", c>>] = "not_found"
                  /\ reply'[<<"cancel", c>>] = None
                  /\ UNCHANGED << jobs, events, next_id, txn, lock >>
          /\ \A s \in Subscribers :
               (/\ sub[s].pc = "idle"
                /\ sub'[s].pc # "idle"
                /\ sub'[s].job_id = Some(j))
               => /\ sub'[s].pc = "not_found"
                  /\ UNCHANGED << jobs, events, next_id, txn, lock >> ]_vars
  /\ [][ \A s \in Subscribers : sub[s].pc = "not_found" => sub'[s] = sub[s] ]_vars

\* C13 witness: with one job stored, a cancel and a stream request for an
\* id the store does not hold have both been answered.
C13_Witness ==
  \E j \in JobIds \ DOMAIN jobs, c \in 1..MaxCancels, s \in Subscribers :
    /\ DOMAIN jobs # {}
    /\ target[c] = Some(j) /\ pc[<<"cancel", c>>] = "not_found"
    /\ sub[s].pc = "not_found" /\ sub[s].job_id = Some(j)
    /\ get_estimate_job(j).status_code = 404
\* stream s is open and its client has gone
Disconnected(s) == sub[s].pc = "open" /\ ~sub[s].connected

\* C14: the step in which the client of stream s disconnects changes only
\* that stream's connection; a disconnected stream can take its break, and
\* the only change such a stream ever makes is to close, with its cursor and
\* its emitted events as they were; a closed stream stays as it is; these
\* steps change neither jobs nor events nor another stream.
C14_DisconnectStopsOnlyThatStream ==
  /\ [](\A s \in Subscribers : Disconnected(s) => ENABLED event_generator_break(s))
  /\ [][ \A s \in Subscribers :
          /\ (sub[s].pc = "open" /\ sub[s].connected /\ ~sub'[s].connected)
             => /\ sub'[s] = [ sub[s] EXCEPT !.connected = FALSE ]
                /\ \A t \in Subscribers \ {s} : sub'[t] = sub[t]
                /\ UNCHANGED << jobs, events, next_id, txn, lock, pc >>
          /\ (Disconnected(s) /\ sub'[s] # sub[s])
             => /\ sub'[s] = [ sub[s] EXCEPT !.pc = "closed" ]
                /\ \A t \in Subscribers \ {s} : sub'[t] = sub[t]
                /\ UNCHANGED << jobs, events, next_id, txn, lock, pc >>
          /\ sub[s].pc = "closed" => sub'[s] = sub[s] ]_vars

\* C14 witness: a stream closed after its client left, with committed events
\* of its job beyond its cursor, and another stream of the same job that is
\* open and has emitted an event beyond that cursor.
C14_Witness ==
  \E s \in Subscribers, t \in Subscribers :
    /\ s # t
    /\ sub[s].pc = "closed" /\ sub[s].emitted # << >>
    /\ sub[t].pc = "open" /\ sub[t].connected
    /\ sub[t].job_id = sub[s].job_id
    /\ \E n \in Range(sub[t].emitted) : After(sub[s].last_id, n)
\* C15: no step ends a stream whose client is connected; in particular a
\* poll cycle whose fetch fails with a storage error leaves the stream open.
C15_FetchFailureKeepsStream ==
  [][ \A s \in Subscribers :
        (sub[s].pc = "open" /\ sub[s].connected) => sub'[s].pc = "open" ]_vars
\* stream s has emitted a status event that carries a terminal status
TerminalEmitted(s) ==
  \E e \in StatusEvents(Get(sub[s].job_id)) :
    e.id \in Range(sub[s].emitted) /\ e.data.status \in Terminal

\* C16: a stream that has emitted the done, error or cancelled status event
\* of its job stays open in every step taken while its client is connected.
C16_StreamOutlivesTerminalStatus ==
  [][ \A s \in Subscribers :
        (sub[s].pc = "open" /\ sub[s].connected /\ TerminalEmitted(s))
        => sub'[s].pc = "open" ]_vars
\* ------------------------------------------------- the runner's outcome
\* the estimator raised for job j (and no storage error replaced it)
EstimatorRaised(j) ==
  outcome[j] # None /\ ~Get(outcome[j]).ok /\ Get(outcome[j]).value \in EstimatorErrors

\* C21: the runner's error attempt after the estimator raised, on a job that
\* is not cancelled, is staged, and its commit leaves the job in error with
\* finished_at set and error the captured description; the estimator returns
\* or raises only for a runner that has no outcome yet, it is entered only
\* from the start transition, and the runner never starts again.
C21_FailureIsRecordedOnce ==
  [][ \A j \in DOMAIN jobs :
        /\ ( /\ CompletionAttempt(j)
             /\ pc[Runner(j)] = "error"
             /\ EstimatorRaised(j)
             /\ jobs[j].status # "cancelled" ) =>
               /\ txn'[Runner(j)] # None
               /\ Get(Get(txn'[Runner(j)]).job).status = "error"
        /\ ( /\ pc[Runner(j)] = "error"
             /\ pc'[Runner(j)] = "finished"
             /\ EstimatorRaised(j)
             /\ txn[Runner(j)] # None ) =>
               /\ jobs'[j].status = "error"
               /\ jobs'[j].finished_at # None
               /\ jobs'[j].error = Some(Get(outcome[j]).value)
               /\ jobs'[j].result = jobs[j].result
        /\ (pc[Runner(j)] = "estimate" /\ pc'[Runner(j)] # "estimate") =>
               outcome[j] = None /\ outcome'[j] # None
        /\ (pc[Runner(j)] # "estimate" /\ pc'[Runner(j)] = "estimate") =>
               pc[Runner(j)] = "start"
        /\ pc[Runner(j)] \notin {"unscheduled", "start"} =>
               pc'[Runner(j)] # "start" ]_vars

\* C21 witness: the estimator raised, the runner has finished and the job is
\* in error with the captured description and finished_at set.
C21_Witness ==
  \E j \in DOMAIN jobs :
    /\ EstimatorRaised(j)
    /\ pc[Runner(j)] = "finished"
    /\ jobs[j].status = "error"
    /\ jobs[j].error = Some(Get(outcome[j]).value)
    /\ jobs[j].finished_at # None
\* C22: an event of job j that reports completion (it carries status done,
\* or it is the "Job completed" progress event) exists only if a transition
\* into done was applied to j.
C22_DiscardedOutcomeIsInvisible ==
  \A j \in DOMAIN jobs :
    (\E e \in EventsOf(j) : e.data.status = "done" \/ e \in CompletionEvents(j))
    => DoneEvents(j) # {}
\* ------------------------------------------------------ the timestamps
\* C23: a step changes a job's started_at only from null, and leaves the
\* job running; and a start transition applied to a row whose started_at is
\* set (a second start) leaves started_at as it is.
C23_StartedAtWrittenOnce ==
  /\ [][ \A j \in DOMAIN jobs :
          jobs'[j].started_at # jobs[j].started_at =>
            /\ jobs[j].started_at = None
            /\ jobs'[j].status = "running"
            /\ pc[Runner(j)] = "start" /\ pc'[Runner(j)] = "estimate" ]_vars
  /\ [](\A j \in DOMAIN jobs :
          jobs[j].started_at # None =>
            Updated(jobs[j], "running", None, None, TRUE, FALSE).started_at
              = jobs[j].started_at)

\* C23 witness: a job that was started and then cancelled, its started_at
\* still the reading of the start, before its finished_at.
C23_Witness ==
  \E j \in DOMAIN jobs :
    /\ jobs[j].status = "cancelled"
    /\ jobs[j].started_at # None /\ jobs[j].finished_at # None
    /\ Get(jobs[j].started_at) < Get(jobs[j].finished_at)
    /\ \E e \in TransitionEvents(j) :
         e.data.status = "running" /\ e.created_at >= Get(jobs[j].started_at)
\* C24: once a job's finished_at is set, no step changes it.
C24_FinishedAtWrittenOnce ==
  [][ \A j \in DOMAIN jobs :
        jobs[j].finished_at # None => jobs'[j].finished_at = jobs[j].finished_at ]_vars

\* C25: a job's finished_at is set exactly when its status is done, error or
\* cancelled, and a queued job has no started_at.
C25_TimestampsMatchStatus ==
  \A j \in DOMAIN jobs :
    /\ jobs[j].finished_at # None <=> jobs[j].status \in Terminal
    /\ jobs[j].status = "queued" => jobs[j].started_at = None
\* ---------------------------------------------------- result and error
\* C26: a step changes a job's result only as the commit of the runner's
\* done transition and its error only as the commit of the runner's error
\* transition; a rejected done or error attempt changes no job; and a start
\* or a cancel transition applied to any row leaves its result and error as
\* they are.
C26_ResultAndErrorFrame ==
  /\ [][ \A j \in DOMAIN jobs :
          /\ jobs'[j].result # jobs[j].result =>
               /\ jobs'[j].status = "done"
               /\ pc[Runner(j)] = "done" /\ pc'[Runner(j)] = "append"
          /\ jobs'[j].error # jobs[j].error =>
               /\ jobs'[j].status = "error"
               /\ pc[Runner(j)] = "error" /\ pc'[Runner(j)] = "finished"
          /\ (CompletionAttempt(j) /\ jobs[j].status = "cancelled") =>
               jobs' = jobs /\ txn'[Runner(j)] = None ]_vars
  /\ [](\A j \in DOMAIN jobs :
          LET started == Updated(jobs[j], "running", None, None, TRUE, FALSE)
              cancelled == Updated(jobs[j], "cancelled", None, None, FALSE, TRUE)
          IN /\ started.result = jobs[j].result
             /\ started.error = jobs[j].error
             /\ cancelled.result = jobs[j].result
             /\ cancelled.error = jobs[j].error)

\* C26 witness: a job that was cancelled after its result or its error was
\* stored, and still holds it.
C26_Witness ==
  \E j \in DOMAIN jobs :
    /\ jobs[j].status = "cancelled"
    /\ jobs[j].result # None \/ jobs[j].error # None
\* ------------------------------------------------------- the event log
\* the status event of job j with the highest id
LastStatusEvent(j) ==
  CHOOSE e \in StatusEvents(j) : \A o \in StatusEvents(j) : o.id <= e.id

\* C27: the status events of a job are the "Job queued" event of its
\* creation followed by one event per applied transition, in the order of
\* the transitions, and the last of them carries the job's current status.
C27_StatusEventsTellTheHistory ==
  \A j \in DOMAIN jobs :
    /\ \A e \in StatusEvents(j) \ TransitionEvents(j) :
         /\ e.message = <<"Job queued">>
         /\ \A o \in TransitionEvents(j) : e.id < o.id
    /\ LastStatusEvent(j).data.status = jobs[j].status
\* ----------------------------------------------------- the row lock
\* session p has read the row of job j and staged its new row
HasStaged(p, j) ==
  txn[p] # None /\ Get(txn[p]).job # None /\ Get(Get(txn[p]).job).job_id = j

\* C28: at most one open session has read and staged the row of a job, and
\* it holds the row lock; from its read to the end of its session no other
\* step changes the committed row, and the session ends by committing the row
\* it staged or, on a storage failure, by leaving the row as it is.
C28_TransitionsAreSerialized ==
  /\ [](\A j \in DOMAIN jobs, p \in Procs :
          /\ HasStaged(p, j) <=> lock[j] = Some(p)
          /\ HasStaged(p, j) => \A q \in Procs \ {p} : ~HasStaged(q, j))
  /\ [][ \A j \in DOMAIN jobs, p \in Procs :
          HasStaged(p, j) =>
            IF txn'[p] = txn[p]
            THEN jobs'[j] = jobs[j]
            ELSE \/ jobs'[j] = Get(Get(txn[p]).job)
                 \/ jobs'[j] = jobs[j] /\ failures' = failures + 1 ]_vars

\* C28 witness: the runner holds the row lock of a job with its completion
\* staged while a cancel request for the same job waits to read the row.
C28_Witness ==
  \E j \in DOMAIN jobs, c \in 1..MaxCancels :
    /\ HasStaged(Runner(j), j)
    /\ pc[Runner(j)] \in {"done", "error"}
    /\ target[c] = Some(j)
    /\ pc[<<"cancel", c>>] = "cancel" /\ txn[<<"cancel", c>>] = None
    /\ ~ENABLED cancel_job(c)
\* the event rows inserted by sessions that are still open
StagedEvents ==
  { Get(Get(txn[p]).event) :
      p \in { q \in Procs : txn[q] # None /\ Get(txn[q]).event # None } }

\* C29: the ids of the inserted events, committed or not, are unique and
\* below the sequence; a step that draws an id gives it to one new event,
\* and it is greater than every id drawn before; the sequence never goes
\* back; and every committed event stays in the log as it is.
C29_EventLogAppendOnly ==
  /\ [](\A e, o \in events \cup StagedEvents :
          /\ e.id = o.id => e = o
          /\ e.id \in 1..(next_id - 1))
  /\ [][ /\ events \subseteq events'
         /\ next_id' \in {next_id, next_id + 1}
         /\ \A e \in (events' \cup StagedEvents') \ (events \cup StagedEvents) :
              /\ e.id = next_id
              /\ next_id' = next_id + 1
              /\ \A o \in events \cup StagedEvents : o.id < e.id ]_vars

\* C29 witness: a log of three events with an id missing below the highest.
C29_Witness ==
  /\ Cardinality(events) >= 3
  /\ \E n \in 1..MaxEventId :
       /\ \E e \in events : e.id > n
       /\ \A e \in events \cup StagedEvents : e.id # n
\* C30: every committed event belongs to a job of the job store, created no
\* later than the event.
C30_EventsBelongToJobs ==
  \A e \in events :
    /\ e.job_id \in DOMAIN jobs
    /\ jobs[e.job_id].created_at <= e.created_at

\* C30 witness: a job with an event appended by the cancel handler or by the
\* runner, written before another job was created.
C30_Witness ==
  \E e \in events, k \in DOMAIN jobs :
    /\ e.message \in { <<"Job cancelled">>, <<"Job completed">> }
    /\ k # e.job_id
    /\ e.created_at < jobs[k].created_at
\* ------------------------------------------------- the identity of a job
\* C31: every step keeps every stored job, with its job_id, its created_at
\* and its request payload as they are; and the get endpoint answers with the
\* job_id and created_at of the stored row.
C31_IdentityIsImmutable ==
  /\ [][ \A j \in DOMAIN jobs :
          /\ j \in DOMAIN jobs'
          /\ jobs'[j].job_id = jobs[j].job_id
          /\ jobs'[j].created_at = jobs[j].created_at
          /\ jobs'[j].request = jobs[j].request ]_vars
  /\ [](\A j \in DOMAIN jobs :
          /\ jobs[j].job_id = j
          /\ jobs[j].request \in Requests
          /\ get_estimate_job(j).body.job_id = j
          /\ get_estimate_job(j).body.created_at = isoformat(jobs[j].created_at))

\* C31 witness: a job that was started, completed and cancelled, with a
\* stream that has emitted its events, still created at the time of its
\* "Job queued" event.
C31_Witness ==
  \E j \in DOMAIN jobs, s \in Subscribers :
    /\ jobs[j].status = "cancelled"
    /\ jobs[j].started_at # None
    /\ jobs[j].result # None \/ jobs[j].error # None
    /\ sub[s].job_id = Some(j) /\ Len(sub[s].emitted) >= 3
    /\ \E e \in EventsOf(j) :
         e.message = <<"Job queued">> /\ e.created_at = jobs[j].created_at
\* ------------------------------------------------------------ progress
\* the id sequence of the model is used up: no further event can be written
LogFull == next_id > MaxEventId

\* C32: a created job whose estimator call has returned or raised reaches a
\* terminal status (as long as the event log has room for the event); and
\* while the estimator of a running job has not returned, a step changes the
\* job's status only to cancelled, by a cancel handler's commit.
C32_ReturnedJobsTerminate ==
  /\ \A j \in JobIds :
       (j \in DOMAIN jobs /\ outcome[j] # None)
         ~> (LogFull \/ (j \in DOMAIN jobs /\ jobs[j].status \in Terminal))
  /\ [][ \A j \in DOMAIN jobs :
          ( /\ pc[Runner(j)] = "estimate"
            /\ jobs[j].status = "running"
            /\ jobs'[j].status # "running" ) =>
              /\ jobs'[j].status = "cancelled"
              /\ \E c \in 1..MaxCancels :
                   /\ target[c] = Some(j)
                   /\ pc[<<"cancel", c>>] = "cancel"
                   /\ pc'[<<"cancel", c>>] = "append" ]_vars

\* C32 witness: the estimator returned, the runner has finished, the job is
\* in a terminal status and the event log still has room.
C32_Witness ==
  \E j \in DOMAIN jobs :
    /\ outcome[j] # None
    /\ pc[Runner(j)] = "finished"
    /\ jobs[j].status \in Terminal
    /\ ~LogFull
\* ------------------------------------------------- the Last-Event-ID header
\* the headers that are missing, empty or not an integer
NoCursorHeaders == { h \in LastEventIdHeaders : h = None \/ Get(h) = "" \/ int(Get(h)) = None }

\* C33: a stream opened with a missing, empty or non-integer header starts
\* with no cursor, and its first emitting poll emits all committed events of
\* its job; a stream opened with an integer header c starts with cursor c and
\* every id it emits is greater than c.
C33_HeaderSetsTheStart ==
  /\ [](\A s \in Subscribers :
          sub[s].pc = "open" =>
            IF sub[s].header \in NoCursorHeaders
            THEN /\ initial_last_id(sub[s].header) = None
                 /\ sub[s].emitted = << >> => sub[s].last_id = None
            ELSE /\ initial_last_id(sub[s].header) = int(Get(sub[s].header))
                 /\ sub[s].emitted = << >> => sub[s].last_id = int(Get(sub[s].header))
                 /\ \A n \in Range(sub[s].emitted) : n > Get(int(Get(sub[s].header))))
  /\ [][ \A s \in Subscribers :
          ( /\ sub[s].pc = "open"
            /\ sub[s].header \in NoCursorHeaders
            /\ sub[s].emitted = << >>
            /\ sub'[s].emitted # << >> ) =>
              Range(sub'[s].emitted) = { e.id : e \in EventsOf(Get(sub[s].job_id)) } ]_vars

\* C33 witness: of two streams of one job, the one opened with a non-integer
\* or empty header has emitted the log from its first event, the one opened
\* with an integer header has emitted only later events.
C33_Witness ==
  \E s, t \in Subscribers :
    /\ sub[s].pc = "open" /\ sub[t].pc = "open"
    /\ sub[s].job_id = sub[t].job_id
    /\ sub[s].header \in NoCursorHeaders \ {None}
    /\ sub[t].header \notin NoCursorHeaders
    /\ Len(sub[s].emitted) >= 3 /\ sub[s].emitted[1] = 1
    /\ sub[t].emitted # << >>
    /\ sub[t].emitted[1] = Get(int(Get(sub[t].header))) + 1
====
